---- MODULE Spec2Model ----
(***************************************************************************)
(* Model of pipeline.py: OAuth token acquisition, chunked range fetching   *)
(* with the DST correction, CSV flattening/writing and the 3-hour          *)
(* scheduler loop.                                                         *)
(*                                                                         *)
(* Time is counted in whole hours.  An instant is a number of hours since  *)
(* 2024-01-01T00:00Z.  An aware datetime is a record [wall, off]: its      *)
(* naive local fields (hours since 2024-01-01T00:00 on the local clock)    *)
(* and the UTC offset of its tzinfo, so its instant is wall - off.  An ISO *)
(* string is the pair <<wall, off>> that isoformat() prints.               *)
(***************************************************************************)
EXTENDS Integers, Sequences, FiniteSets

VARIABLES
    now,             \* the system clock (an instant)
    proc,            \* "startup" | "loop" | "crashed" for __main__, "call" for a direct call
    next_run,        \* next_run of the scheduled job, None before schedule...do()
    phase,           \* position inside run_pipeline or the called function
    token,           \* run_pipeline's token
    interval_start,  \* get_all_data's local
    end_date,        \* get_all_data's local (parsed)
    all_data,        \* get_all_data's local
    requests,        \* forecast requests issued since the run / call began
    wind_data,       \* run_pipeline's local
    solar_data,      \* run_pipeline's local
    writes,          \* every to_csv call so far, in order
    result,          \* how the last call or run ended
    runs,            \* number of run_pipeline invocations so far
    token_response,  \* the token endpoint's answer in the current run
    args             \* the arguments a direct call was given

vars == <<now, proc, next_run, phase, token, interval_start, end_date, all_data,
          requests, wind_data, solar_data, writes, result, runs, token_response,
          args>>

-----------------------------------------------------------------------------
(* Bounds of the model *)

MaxShift == 2        \* starts explored after each anchor, in hours
MaxSpan == 745       \* longest range of a direct call, in hours (31 days is 744)
MaxRequests == 40    \* cap on the request log (one run issues 38 requests)
MaxData == 1         \* cap on the number of forecasts a range accumulates
MaxN == 2            \* forecasts in a direct save_data call
MaxM == 2            \* values per forecast in a direct save_data call
MaxKey == 2          \* distinct start_date strings
PreHours == 1        \* the process starts at most this long before the fall-back hour
MaxAfter == 2        \* the clock is followed this long after the fall-back

-----------------------------------------------------------------------------
(* Program constants *)

DELTA_DAYS == 15
EVERY_HOURS == 3
START_DATE == <<0, 1>>          \* "2024-01-01T00:00:00+01:00"
END_DATE == <<6576, 2>>         \* "2024-10-01T00:00:00+02:00" (day 274)

\* next_run while no job has been scheduled
None == -1000000

(* Europe/Paris in 2024: CET (UTC+1), CEST (UTC+2) from 2024-03-31T01:00Z  *)
(* until 2024-10-27T01:00Z.  Valid for instants between the transitions of *)
(* 2023-10-29 and 2025-03-30.                                              *)
StdOff == 1
SpringForward == 2161
FallBack == 7201

ParisDst(u) == IF SpringForward <= u /\ u < FallBack THEN 1 ELSE 0

ParisOff(u) == StdOff + ParisDst(u)

-----------------------------------------------------------------------------
(* datetime *)

Instant(d) == d.wall - d.off

fromisoformat(s) == [wall |-> s[1], off |-> s[2]]

isoformat(d) == <<d.wall, d.off>>

\* d + timedelta(hours = h): field arithmetic, the tzinfo is kept
plus(d, h) == [wall |-> d.wall + h, off |-> d.off]

\* d.astimezone(RTE_TZ)
astimezone(d) == [wall |-> Instant(d) + ParisOff(Instant(d)), off |-> ParisOff(Instant(d))]

\* d.dst() of a datetime localized by RTE_TZ, in hours
dst(d) == d.off - StdOff

\* min() of two aware datetimes: the first one unless the second is earlier
min(a, b) == IF Instant(b) < Instant(a) THEN b ELSE a

\* datetime.now(RTE_TZ).strftime("%Y%m%d_%H%M%S"): the local fields, no offset
strftime(u) == u + ParisOff(u)

handle_dstNoCorrection(start_time, end_time) ==
    <<astimezone(start_time), astimezone(end_time)>>

handle_dst(start_time, end_time) ==
    LET st == astimezone(start_time)
        et == astimezone(end_time)
    IN  <<st, plus(et, dst(st) - dst(et))>>

candidate_endNoClamp(start, end) == plus(start, DELTA_DAYS * 24)

\* line 66: interval_end before the DST correction
candidate_end(start, end) == min(plus(start, DELTA_DAYS * 24), end)

-----------------------------------------------------------------------------
(* HTTP *)

\* status codes the token endpoint and the forecast endpoint answer with
TokenStatuses == {100, 200, 304, 404, 500}

FetchStatuses == {200, 304, 404}

\* requests.Response.ok: raise_for_status() raises for 400 <= status < 600
ResponseOk(status) == ~(400 <= status /\ status < 600)

\* start_date strings are numbered in their lexicographic order
ValuePoint(k, v) == [start_date |-> k, end_date |-> k + 1, value |-> v]

RECURSIVE SeqsUpTo(_, _)
SeqsUpTo(S, n) ==
    IF n = 0 THEN {<<>>}
    ELSE LET shorter == SeqsUpTo(S, n - 1)
         IN  shorter \cup {Append(s, x) : s \in {t \in shorter : Len(t) = n - 1}, x \in S}

Forecast(ptype, values) == [production_type |-> ptype, type |-> "CURRENT", values |-> values]

\* response bodies of the forecast endpoint: a JSON object or something else
Bodies(ptype) ==
    {[json |-> FALSE, forecasts |-> <<>>]} \cup
    {[json |-> TRUE, forecasts |-> f] :
        f \in {<<>>, <<Forecast(ptype, <<>>)>>, <<Forecast(ptype, <<ValuePoint(1, 1)>>)>>}}

Ended(kind, status, data) == [kind |-> kind, status |-> status, data |-> data]

NoResult == Ended("none", 0, <<>>)

NoResponse == [status |-> 0, hasToken |-> FALSE]

get_interval_dataSwallow(status, body) ==
    IF ResponseOk(status) /\ body.json THEN Ended("return", status, body.forecasts)
    ELSE Ended("return", status, <<>>)

\* lines 48-50
get_interval_data(status, body) ==
    IF ResponseOk(status)
    THEN IF body.json THEN Ended("return", status, body.forecasts)
         ELSE Ended("JSONDecodeError", status, <<>>)
    ELSE Ended("Fetch failed", status, <<>>)

\* lines 32-34; the body either is a JSON object with access_token or is not
get_token(status, hasToken) ==
    IF ResponseOk(status)
    THEN IF hasToken THEN Ended("return", status, <<>>)
         ELSE Ended("KeyError access_token", status, <<>>)
    ELSE Ended("Auth failed", status, <<>>)

-----------------------------------------------------------------------------
(* Control flow *)

NextPhaseSaveEarly(p) ==
    CASE p = "token" -> "wind"
      [] p = "wind" -> "save_wind"
      [] p = "save_wind" -> "solar"
      [] p = "solar" -> "save_solar"
      [] OTHER -> "done"

\* run_pipeline, lines 106-112: the statement after p
NextPhase(p) ==
    CASE p = "token" -> "wind"
      [] p = "wind" -> "solar"
      [] p = "solar" -> "save_wind"
      [] p = "save_wind" -> "save_solar"
      [] OTHER -> "done"

ProductionType(p) == IF p = "solar" THEN "SOLAR" ELSE "WIND_ONSHORE"

\* control moves to statement p; entering get_all_data runs lines 61-63
Enter(p, start, end) ==
    /\ phase' = p
    /\ IF p \in {"wind", "solar", "range"}
       THEN /\ interval_start' = fromisoformat(start)
            /\ end_date' = fromisoformat(end)
            /\ all_data' = <<>>
       ELSE UNCHANGED <<interval_start, end_date, all_data>>

\* the statement at phase finished normally
Continue ==
    IF proc = "call"
    THEN /\ phase' = "returned"
         /\ UNCHANGED <<interval_start, end_date, all_data>>
    ELSE Enter(NextPhase(phase), START_DATE, END_DATE)

\* an exception leaves the statement at phase: nothing catches it
Raise(e) ==
    /\ phase' = "raised"
    /\ result' = e
    /\ proc' = IF proc = "call" THEN "call" ELSE "crashed"

-----------------------------------------------------------------------------
(* get_all_data *)

InLoop == phase \in {"wind", "solar", "range"}

\* one iteration of the while loop, lines 65-78
FetchChunk ==
    /\ InLoop
    /\ Instant(interval_start) < Instant(end_date)
    /\ Len(requests) < MaxRequests
    /\ LET iv == handle_dst(interval_start, candidate_end(interval_start, end_date))
       IN  \E status \in FetchStatuses, body \in Bodies(ProductionType(phase)) :
             LET r == get_interval_data(status, body)
             IN  /\ r.kind = "return" => Len(all_data) + Len(r.data) <= MaxData
                 /\ requests' = Append(requests,
                        [start_date |-> isoformat(iv[1]),
                         end_date |-> isoformat(iv[2]),
                         production_type |-> ProductionType(phase),
                         error |-> 400 <= status])
                 /\ IF r.kind = "return"
                    THEN /\ all_data' = all_data \o r.data
                         /\ interval_start' = iv[2]
                         /\ UNCHANGED <<phase, result, proc, end_date>>
                    ELSE /\ Raise(r)
                         /\ UNCHANGED <<all_data, interval_start, end_date>>
    /\ UNCHANGED <<now, next_run, token, wind_data, solar_data, writes, runs,
                   token_response, args>>

\* the loop condition is false: line 80, and the caller's assignment
FetchReturn ==
    /\ InLoop
    /\ ~(Instant(interval_start) < Instant(end_date))
    /\ wind_data' = IF phase = "wind" THEN all_data ELSE wind_data
    /\ solar_data' = IF phase = "solar" THEN all_data ELSE solar_data
    /\ result' = IF proc = "call" THEN Ended("return", 0, all_data) ELSE result
    /\ Continue
    /\ UNCHANGED <<now, proc, next_run, token, requests, writes, runs,
                   token_response, args>>

-----------------------------------------------------------------------------
(* save_data *)

RowsOf(forecast) ==
    [j \in 1..Len(forecast.values) |->
        [start_date |-> forecast.values[j].start_date,
         end_date |-> forecast.values[j].end_date,
         production_type |-> forecast.production_type,
         forecast_type |-> forecast.type,
         generation_value |-> forecast.values[j].value]]

\* lines 84-94: one record per value of every forecast, in order
RECURSIVE Flatten(_)
Flatten(data) ==
    IF data = <<>> THEN <<>>
    ELSE RowsOf(Head(data)) \o Flatten(Tail(data))

RowOrders(n) == {p \in [1..n -> 1..n] : \A i, j \in 1..n : p[i] = p[j] => i = j}

\* DataFrame.sort_values("start_date") with the default kind="quicksort", which
\* is not a stable sort: any ordering of the rows by start_date can come out
sort_values(records) ==
    {[i \in 1..Len(records) |-> records[p[i]]] :
        p \in {q \in RowOrders(Len(records)) :
                 \A i \in 1..(Len(records) - 1) :
                    records[q[i]].start_date <= records[q[i + 1]].start_date}}

Base(p) == IF p = "save_solar" THEN "electricity_generation_solar"
           ELSE "electricity_generation_wind"

\* lines 83-101.  pd.DataFrame([]) has no column, so sort_values("start_date")
\* raises KeyError when there is no record.
SaveData ==
    /\ phase \in {"save_wind", "save_solar"}
    /\ LET data == IF phase = "save_solar" THEN solar_data ELSE wind_data
           records == Flatten(data)
       IN  IF records = <<>>
           THEN /\ Raise(Ended("KeyError start_date", 0, <<>>))
                /\ UNCHANGED <<writes, interval_start, end_date, all_data>>
           ELSE /\ \E rows \in sort_values(records) :
                     writes' = Append(writes,
                         [name |-> <<Base(phase), strftime(now)>>,
                          rows |-> rows, run |-> runs, at |-> now])
                /\ Continue
                /\ result' = IF proc = "call" THEN Ended("return", 0, <<>>) ELSE result
                /\ UNCHANGED proc
    /\ UNCHANGED <<now, next_run, token, requests, wind_data, solar_data, runs,
                   token_response, args>>

-----------------------------------------------------------------------------
(* run_pipeline and the scheduler loop *)

MaxTime == FallBack + MaxAfter

StartTimes == (FallBack - PreHours)..FallBack

\* lines 103-104: run_pipeline is entered with fresh locals
BeginRun ==
    /\ phase' = "token"
    /\ runs' = runs + 1
    /\ requests' = <<>>
    /\ token_response' = NoResponse
    /\ result' = NoResult
    /\ token' = "none"
    /\ wind_data' = <<>>
    /\ solar_data' = <<>>
    /\ UNCHANGED <<now, proc, next_run, interval_start, end_date, all_data, writes, args>>

\* line 119: the immediate run
StartupRun ==
    /\ proc = "startup"
    /\ phase = "idle"
    /\ BeginRun

\* line 127: run_pending() runs the job once its next_run has come
RunPending ==
    /\ proc = "loop"
    /\ phase = "idle"
    /\ now >= next_run
    /\ BeginRun

\* line 106
GetToken ==
    /\ phase = "token"
    /\ \E status \in TokenStatuses, hasToken \in BOOLEAN :
         LET r == get_token(status, hasToken)
         IN  /\ token_response' = [status |-> status, hasToken |-> hasToken]
             /\ IF r.kind = "return"
                THEN /\ token' = "access_token"
                     /\ Continue
                     /\ UNCHANGED <<proc, result>>
                ELSE /\ Raise(r)
                     /\ UNCHANGED <<token, interval_start, end_date, all_data>>
    /\ UNCHANGED <<now, next_run, requests, wind_data, solar_data, writes, runs, args>>

every_hour_do(t) == t + 1

\* schedule.every(3).hours.do(run_pipeline) at instant t, and the job's
\* rescheduling after each later run: next_run is t plus the period
every_hours_do(t) == t + EVERY_HOURS

\* line 114 and the return to __main__: line 122 after the immediate run
\* (every(3).hours.do sets next_run), the job's rescheduling after a later one
FinishRun ==
    /\ phase = "done"
    /\ phase' = "idle"
    /\ proc' = "loop"
    /\ next_run' = every_hours_do(now)
    /\ UNCHANGED <<now, token, interval_start, end_date, all_data, requests,
                   wind_data, solar_data, writes, result, runs, token_response, args>>

\* time passes: a blocking call takes time, time.sleep(30) at line 128
Tick ==
    /\ proc \in {"startup", "loop"}
    /\ now < MaxTime
    /\ now' = now + 1
    /\ UNCHANGED <<proc, next_run, phase, token, interval_start, end_date, all_data,
                   requests, wind_data, solar_data, writes, result, runs,
                   token_response, args>>

\* the process has started: lines 11-27 passed, __main__ is about to run
Init ==
    /\ now \in StartTimes
    /\ proc = "startup"
    /\ next_run = None
    /\ phase = "idle"
    /\ token = "none"
    /\ interval_start = fromisoformat(START_DATE)
    /\ end_date = fromisoformat(END_DATE)
    /\ all_data = <<>>
    /\ requests = <<>>
    /\ wind_data = <<>>
    /\ solar_data = <<>>
    /\ writes = <<>>
    /\ result = NoResult
    /\ runs = 0
    /\ token_response = NoResponse
    /\ args = <<START_DATE, END_DATE>>

Next ==
    \/ StartupRun
    \/ RunPending
    \/ GetToken
    \/ FetchChunk
    \/ FetchReturn
    \/ SaveData
    \/ FinishRun
    \/ Tick

Spec == Init /\ [][Next]_vars

-----------------------------------------------------------------------------
(* A direct call get_all_data(token, start, end, "WIND_ONSHORE", "CURRENT") *)

StartAnchors == {Instant(fromisoformat(START_DATE)),
                 SpringForward - DELTA_DAYS * 24 - 1,
                 FallBack - DELTA_DAYS * 24 - 1}

InputOffsets == {1, 2}

IsoAt(u, off) == <<u + off, off>>

RangeInputs ==
    {<<IsoAt(a + s, o1), IsoAt(a + s + d, o2)>> :
        a \in StartAnchors, s \in 0..MaxShift, d \in 0..MaxSpan,
        o1 \in InputOffsets, o2 \in InputOffsets}

InitRange ==
    /\ now = 0
    /\ proc = "call"
    /\ next_run = None
    /\ phase = "range"
    /\ token = "access_token"
    /\ token_response = NoResponse
    /\ args \in RangeInputs
    /\ interval_start = fromisoformat(args[1])
    /\ end_date = fromisoformat(args[2])
    /\ all_data = <<>>
    /\ requests = <<>>
    /\ wind_data = <<>>
    /\ solar_data = <<>>
    /\ writes = <<>>
    /\ result = NoResult
    /\ runs = 0

NextRange == FetchChunk \/ FetchReturn

SpecRange == InitRange /\ [][NextRange]_vars

-----------------------------------------------------------------------------
(* A direct call save_data(data, "electricity_generation_wind") *)

SaveValuePoints == {ValuePoint(k, v) : k \in 1..MaxKey, v \in 1..MaxKey}

SaveForecasts ==
    {Forecast(pt, vs) : pt \in {"WIND_ONSHORE", "SOLAR"},
                        vs \in SeqsUpTo(SaveValuePoints, MaxM)}

SaveInputs == SeqsUpTo(SaveForecasts, MaxN)

InitSave ==
    /\ now \in StartTimes
    /\ proc = "call"
    /\ next_run = None
    /\ phase = "save_wind"
    /\ token = "none"
    /\ interval_start = fromisoformat(START_DATE)
    /\ end_date = fromisoformat(END_DATE)
    /\ all_data = <<>>
    /\ requests = <<>>
    /\ args \in SaveInputs
    /\ wind_data = args
    /\ solar_data = <<>>
    /\ writes = <<>>
    /\ result = NoResult
    /\ runs = 0
    /\ token_response = NoResponse

NextSave == SaveData

SpecSave == InitSave /\ [][NextSave]_vars

-----------------------------------------------------------------------------
(* Properties of a direct get_all_data call *)

IsoInstant(s) == Instant(fromisoformat(s))

ReqStart(i) == IsoInstant(requests[i].start_date)

ReqEnd(i) == IsoInstant(requests[i].end_date)

ArgStart == IsoInstant(args[1])

ArgEnd == IsoInstant(args[2])

ChunkHours == DELTA_DAYS * 24

Returned == proc = "call" /\ phase = "returned" /\ result.kind = "return"

\* C1: when every chunk request succeeds, the requested sub-intervals cover
\* [start, end) exactly once: the first starts at start, each later one starts
\* where the previous one ended, and the last one ends at end.
C1_CoversExactlyOnce ==
    (Returned /\ ArgStart <= ArgEnd) =>
        /\ requests = <<>> => ArgStart = ArgEnd
        /\ requests /= <<>> =>
            /\ ReqStart(1) = ArgStart
            /\ \A i \in 2..Len(requests) : ReqStart(i) = ReqEnd(i - 1)
            /\ ReqEnd(Len(requests)) = ArgEnd

\* the naive end of request i: its start plus 15 days, before any correction
NaiveEnd(i) == ReqStart(i) + ChunkHours

NotClamped(i) == NaiveEnd(i) <= ArgEnd

\* the local time Europe/Paris shows at instant u
ParisWall(u) == u + ParisOff(u)

NoTransition ==
    \A t \in {SpringForward, FallBack} : ~(ArgStart < t /\ t <= ArgEnd)

CeilDiv(a, b) == (a + b - 1) \div b

C10_StrictProgress ==
    (proc = "call" /\ ArgStart < ArgEnd /\ phase \in {"range", "returned"}) =>
        \A i \in 1..Len(requests) :
            /\ ReqStart(i) < ReqEnd(i)
            /\ i > 1 => ReqStart(i - 1) < ReqStart(i)

-----------------------------------------------------------------------------
(* Properties of the pipeline and the scheduler *)

Is2xx(status) == 200 <= status /\ status < 300

InPipeline == proc \in {"startup", "loop", "crashed"}

WritesOfRun == {i \in 1..Len(writes) : writes[i].run = runs}

FetchFailed ==
    \/ result.kind \in {"Auth failed", "KeyError access_token"}
    \/ result.kind \in {"Fetch failed", "JSONDecodeError"}
    \/ \E i \in 1..Len(requests) : requests[i].error

\* C5: a run whose token request or any forecast request (wind or solar)
\* failed has written no file, and a run writes its first file only after both
\* range fetches have returned.
C5_NoFileAfterFailedFetch ==
    InPipeline =>
        /\ FetchFailed => WritesOfRun = {}
        /\ WritesOfRun /= {} => phase \notin {"token", "wind", "solar"}

\* a run that fetched wind forecasts, then crashed on a failed solar request
C5_Witness ==
    /\ proc = "crashed"
    /\ result.kind = "Fetch failed"
    /\ Flatten(wind_data) /= <<>>
    /\ requests[Len(requests)].production_type = "SOLAR"
    /\ requests[Len(requests)].error

\* C6: a run whose token response was not 2xx ended with the "Auth failed"
\* error carrying that status and issued no forecast request; a 2xx response
\* with a token gave the run its token.
C6_AuthErrorOnNon2xx ==
    (InPipeline /\ token_response /= NoResponse) =>
        IF Is2xx(token_response.status)
        THEN token_response.hasToken => token = "access_token"
        ELSE /\ result.kind = "Auth failed"
             /\ result.status = token_response.status
             /\ requests = <<>>

\* C7: after a run failed with the authentication error the process is still
\* in its scheduler loop with the next run scheduled.
C7_SchedulerSurvivesAuthError ==
    (InPipeline /\ result.kind = "Auth failed") =>
        /\ proc = "loop"
        /\ next_run /= None

\* C9: no two writes used the same file name.
C9_NoOverwrite ==
    InPipeline =>
        \A i, j \in 1..Len(writes) : i /= j => writes[i].name /= writes[j].name

\* two runs wrote the wind file, one before and one after the fall-back
C9_Witness ==
    \E i, j \in 1..Len(writes) :
        /\ writes[i].run < writes[j].run
        /\ writes[i].name[1] = writes[j].name[1]
        /\ writes[i].at < FallBack
        /\ writes[j].at >= FallBack

-----------------------------------------------------------------------------
(* Properties of a direct save_data call *)

Sum(f) == LET RECURSIVE S(_)
              S(i) == IF i = 0 THEN 0 ELSE Len(f[i].values) + S(i - 1)
          IN  S(Len(f))

\* C8: save_data of any forecasts completes and writes one row per value
\* point, each with its forecast's production_type and type, ordered by
\* start_date with equal start_dates in their original order; without any
\* value point it writes a file without rows.
C8_WritesAllRowsSorted ==
    (proc = "call" /\ phase \in {"returned", "raised"}) =>
        /\ phase = "returned"
        /\ Len(writes) = 1
        /\ Len(writes[1].rows) = Sum(args)
        /\ LET rows == writes[1].rows
               src == Flatten(args)
           IN  /\ \A i \in 1..(Len(rows) - 1) : rows[i].start_date <= rows[i + 1].start_date
               /\ \E p \in RowOrders(Len(src)) :
                    /\ \A i \in 1..Len(src) : rows[i] = src[p[i]]
                    /\ \A i, j \in 1..Len(src) :
                         (i < j /\ rows[i].start_date = rows[j].start_date) => p[i] < p[j]

====
